---------------------------- MODULE Spec2Model ----------------------------
(***************************************************************************)
(* A model of employee_analysis.py: one run of main() per process, run     *)
(* again and again in a working directory that holds employees.csv and     *)
(* employee_report.html.                                                   *)
(*                                                                         *)
(* Files are modelled by their content: a CSV file is the sequence of its  *)
(* lines, each line the sequence of its fields (text); the report is the   *)
(* sequence of the sections the template of build_html_report writes.      *)
(* Text that the program inspects character by character (the embedded     *)
(* source code, the chart's labels when sorted) is a sequence of           *)
(* one-character strings.                                                  *)
(*                                                                         *)
(* The libraries are modelled by what the program uses of them: numpy's    *)
(* bit generator by a small congruential generator (what matters is that   *)
(* the stream is a function of the seed), pandas' to_csv / read_csv at the *)
(* level of fields, matplotlib's figure by the bars it draws.  Failures    *)
(* of the environment (an I/O error, a full disk, a rendering error) are   *)
(* inputs of the actions.                                                  *)
(***************************************************************************)
EXTENDS Integers, Sequences, FiniteSets, TLC

VARIABLES
    csv,            \* csv[d]: the file employees.csv of working directory d
    report,         \* report[d]: the file employee_report.html of directory d
    pc,             \* pc[d]: where the process running main() in d stands
    runNo,          \* runNo[d]: how many runs were started in d
    branch,         \* branch[d]: the branch load_or_generate_data took in this run
    df,             \* df[d]: main's local df
    finance_count,  \* finance_count[d]: main's local finance_count
    stdout,         \* stdout[d]: the integers printed by this run, in order
    img_bytes,      \* img_bytes[d]: main's local img_bytes (the chart)
    code_text,      \* code_text[d]: main's local code_text, after escaping
    source_file     \* the text of the program's own source file

vars == <<csv, report, pc, runNo, branch, df, finance_count, stdout, img_bytes,
          code_text, source_file>>

---------------------------------------------------------------------------
(* Bounds of the model *)

\* runs started per working directory
MaxRuns == 2
\* data rows of a dataset file that exists before the first run
MaxRows == 3
\* lines that reach the disk when a write of employees.csv fails part-way
MaxTrunc == 2
\* characters of a source text given to the escaping
MaxTextLen == 4

\* the working directories: 1, and 2 for a second, independent one
Dirs == {1, 2}

---------------------------------------------------------------------------
(* Helpers on sequences *)

Range(s) == {s[i] : i \in 1..Len(s)}

Min(a, b) == IF a < b THEN a ELSE b

IsPrefix(s, t) == Len(s) <= Len(t) /\ SubSeq(t, 1, Len(s)) = s

\* the index of the first occurrence of x in s, 0 when there is none
IndexOf(s, x) ==
    IF \E i \in 1..Len(s) : s[i] = x
    THEN CHOOSE i \in 1..Len(s) : s[i] = x /\ \A j \in 1..(i - 1) : s[j] # x
    ELSE 0

---------------------------------------------------------------------------
(* load_or_generate_data: the synthetic table *)

\* rng = np.random.default_rng(7)
Seed == 7
\* size=100
size == 100
\* range(1, 101); range(0, 100) would number the records from 0
RangeStartZero == 1 - 1
RangeStart == 1
RangeStop == 101
\* rng.integers(1, 6, size=100)
ScoreLow == 1
ScoreHigh == 6

departments == <<"Finance", "HR", "IT", "Operations", "Sales", "Marketing">>
regions == <<"North", "South", "East", "West">>
\* p=[0.18, 0.12, 0.22, 0.20, 0.18, 0.10] and p=[0.3, 0.25, 0.25, 0.2], in percent
departments_p == <<18, 12, 22, 20, 18, 10>>
regions_p == <<30, 25, 25, 20>>

\* The bit generator: its state after seeding, and one step of it.  numpy's
\* PCG64 is replaced by a congruential generator on 0..65536.
default_rng(seed) == seed % 65537
NextState(s) == (s * 75 + 74) % 65537

\* the stream of the next n states drawn from state s0 (computed by halves)
RECURSIVE Stream(_, _)
Stream(s0, n) ==
    IF n = 0 THEN <<>>
    ELSE IF n = 1 THEN <<NextState(s0)>>
    ELSE LET h    == n \div 2
             left == Stream(s0, h)
         IN  left \o Stream(left[h], n - h)

RECURSIVE Cumsum(_, _)
Cumsum(p, j) == IF j = 0 THEN 0 ELSE p[j] + Cumsum(p, j - 1)

\* rng.choice(values, p=p): the uniform sample u in [0, 1) (here in percent) is
\* looked up in the cumulative distribution, searchsorted(side="right")
choice(values, p, s) ==
    LET u == s % 100
    IN  values[1 + Cardinality({j \in 1..Len(p) : Cumsum(p, j) <= u})]

\* rng.integers(low, high): uniform on low..high-1
integers(low, high, s) == low + (s % (high - low))

\* The DataFrame built from data: size rows, the columns drawn one after the
\* other from the same generator (Department, then Region, then Performance_Score).
DataColumns == <<"Employee_ID", "Department", "Region", "Performance_Score">>

GenerateTable(seed) ==
    LET s0 == default_rng(seed)
        dept_draws   == Stream(s0, size)
        region_draws == Stream(dept_draws[size], size)
        score_draws  == Stream(region_draws[size], size)
        ids == [i \in 1..(RangeStop - RangeStart) |-> RangeStart + i - 1]
    IN  [loaded  |-> TRUE,
         columns |-> DataColumns,
         dtypes  |-> <<"int64", "object", "object", "int64">>,
         rows    |-> [i \in 1..size |->
                        << ids[i],
                           choice(departments, departments_p, dept_draws[i]),
                           choice(regions, regions_p, region_draws[i]),
                           integers(ScoreLow, ScoreHigh, score_draws[i]) >>]]

\* the table of seed 7 (a constant: no state is read to build it)
SeededTable == GenerateTable(Seed)

\* a generator seeded anew by every run, not with 7
SyntheticTableUnseeded(d) == GenerateTable(Seed + runNo[d])

\* the table generated by a run in working directory d:
\* rng = np.random.default_rng(7), whatever the directory holds
SyntheticTable(d) == SeededTable

---------------------------------------------------------------------------
(* Files, and pandas' to_csv and read_csv *)

\* a path with no file, and a file with the given content
NoFile == [exists |-> FALSE, content |-> <<>>]
File(content) == [exists |-> TRUE, content |-> content]

\* a check that never finds the file
path_exists_never(f) == FALSE

\* csv_path.exists()
path_exists(f) == f.exists

\* main's local df before load_or_generate_data returned
NoTable == [loaded |-> FALSE, columns |-> <<>>, dtypes |-> <<>>, rows |-> <<>>]

\* a missing value of a DataFrame
NaN == "NaN"
\* the fields read_csv reads as a missing value (its default na_values)
NAStrings == {"", "NA", "N/A", "NaN", "nan", "null", "NULL", "None", "n/a", "#N/A"}

\* df.to_csv(csv_path, index=False): a header line, then a line per row; an
\* integer is written in decimal, a missing value as the empty field
FormatCell(v, dtype) ==
    IF dtype = "int64" THEN ToString(v)
    ELSE IF v = NaN THEN "" ELSE v

\* df.head().to_csv(...): only the first five rows are written
to_csv_head(t) ==
    <<t.columns>> \o
    [i \in 1..Min(5, Len(t.rows)) |->
        [j \in 1..Len(t.columns) |-> FormatCell(t.rows[i][j], t.dtypes[j])]]

to_csv(t) ==
    <<t.columns>> \o
    [i \in 1..Len(t.rows) |->
        [j \in 1..Len(t.columns) |-> FormatCell(t.rows[i][j], t.dtypes[j])]]

\* pd.read_csv(csv_path): the first line names the columns; a line with fewer
\* fields is filled with missing values, a line with more fields than the
\* header is an error, as is a file with no line at all.  Fields are kept as
\* text (the program reads no column but Department).  Files whose first
\* record is longer than the header (pandas then takes the first field as
\* the index) and headers that name a column twice are not among the files
\* of the model.
ParseCell(f) == IF f \in NAStrings THEN NaN ELSE f

read_csv_fails(content) ==
    \/ content = <<>>
    \/ \E i \in 2..Len(content) : Len(content[i]) > Len(content[1])

\* pd.read_csv(csv_path, header=0, names=[...]): the columns are renamed to
\* the four expected names, whatever the header says
read_csv_names(content) ==
    LET header == content[1]
    IN  [loaded  |-> TRUE,
         columns |-> [j \in 1..Len(header) |->
                        IF j <= Len(DataColumns) THEN DataColumns[j] ELSE header[j]],
         dtypes  |-> [j \in 1..Len(header) |-> "object"],
         rows    |-> [i \in 1..(Len(content) - 1) |->
                        [j \in 1..Len(header) |->
                            IF j <= Len(content[i + 1])
                            THEN ParseCell(content[i + 1][j])
                            ELSE NaN]]]

read_csv(content) ==
    LET header == content[1]
    IN  [loaded  |-> TRUE,
         columns |-> header,
         dtypes  |-> [j \in 1..Len(header) |-> "object"],
         rows    |-> [i \in 1..(Len(content) - 1) |->
                        [j \in 1..Len(header) |->
                            IF j <= Len(content[i + 1])
                            THEN ParseCell(content[i + 1][j])
                            ELSE NaN]]]

\* df["Department"]: the column of that name (a KeyError when there is none)
HasColumn(t, name) == \E j \in 1..Len(t.columns) : t.columns[j] = name
Column(t, name) ==
    LET j == IndexOf(t.columns, name)
    IN  [i \in 1..Len(t.rows) |-> t.rows[i][j]]

\* int((df["Department"] == "Finance").sum())
CountEqual(col, value) == Cardinality({i \in 1..Len(col) : col[i] = value})
\* .count() in place of .sum(): every row counts
FinanceCountRows(t) == Len(Column(t, "Department"))
FinanceCount(t) == CountEqual(Column(t, "Department"), "Finance")

---------------------------------------------------------------------------
(* plot_department_distribution *)

\* the characters of the department labels that occur in the model
Chars(label) ==
    CASE label = "Finance"    -> <<"F", "i", "n", "a", "n", "c", "e">>
      [] label = "HR"         -> <<"H", "R">>
      [] label = "IT"         -> <<"I", "T">>
      [] label = "Operations" -> <<"O", "p", "e", "r", "a", "t", "i", "o", "n", "s">>
      [] label = "Sales"      -> <<"S", "a", "l", "e", "s">>
      [] label = "Marketing"  -> <<"M", "a", "r", "k", "e", "t", "i", "n", "g">>
      [] label = "finance"    -> <<"f", "i", "n", "a", "n", "c", "e">>

Upper == <<"A", "B", "C", "D", "E", "F", "G", "H", "I", "J", "K", "L", "M",
           "N", "O", "P", "Q", "R", "S", "T", "U", "V", "W", "X", "Y", "Z">>
Lower == <<"a", "b", "c", "d", "e", "f", "g", "h", "i", "j", "k", "l", "m",
           "n", "o", "p", "q", "r", "s", "t", "u", "v", "w", "x", "y", "z">>

\* the code point of a letter
Ord(c) == IF IndexOf(Upper, c) > 0 THEN 64 + IndexOf(Upper, c)
          ELSE 96 + IndexOf(Lower, c)

\* Python's order of str: by code point, a proper prefix first
RECURSIVE LexLess(_, _)
LexLess(a, b) ==
    IF b = <<>> THEN FALSE
    ELSE IF a = <<>> THEN TRUE
    ELSE IF Ord(Head(a)) # Ord(Head(b)) THEN Ord(Head(a)) < Ord(Head(b))
    ELSE LexLess(Tail(a), Tail(b))

StrLess(x, y) == LexLess(Chars(x), Chars(y))

\* a stable sort of s: s[i] goes before s[j] when before[i, j]
SortBy(s, before) ==
    LET R[n \in 0..Len(s)] ==
            IF n = 0 THEN <<>>
            ELSE LET rest == R[n - 1]
                     k    == Cardinality({i \in 1..Len(rest) : ~before[n, rest[i]]})
                 IN  SubSeq(rest, 1, k) \o <<n>> \o SubSeq(rest, k + 1, Len(rest))
        order == R[Len(s)]
    IN  [i \in 1..Len(s) |-> s[order[i]]]

\* the values of a column in the order of their first row, missing values dropped
Distinct(col) ==
    LET first == {i \in 1..Len(col) :
                     col[i] # NaN /\ \A j \in 1..(i - 1) : col[j] # col[i]}
    IN  [k \in 1..Cardinality(first) |->
            col[CHOOSE i \in first : Cardinality({j \in first : j < i}) = k - 1]]

\* Series.value_counts(): a count per value, the largest count first
value_counts(col) ==
    LET labels  == Distinct(col)
        entries == [i \in 1..Len(labels) |->
                       [label |-> labels[i], height |-> CountEqual(col, labels[i])]]
    IN  SortBy(entries, [i, j \in 1..Len(entries) |->
                            entries[i].height > entries[j].height])

\* value_counts() with no sort_index(): the bars stay in the order of the counts
sort_index_skipped(counts) == counts
\* Series.sort_index(): by label, ascending
sort_index(counts) ==
    SortBy(counts, [i, j \in 1..Len(counts) |->
                       StrLess(counts[i].label, counts[j].label)])

\* main's local img_bytes before the chart was rendered
NoImage == [rendered |-> FALSE, title |-> "", xlabel |-> "", ylabel |-> "",
            bars |-> <<>>]

\* the figure saved as PNG: ax.bar(counts.index, counts.values), left to right
plot_department_distribution(t) ==
    LET counts == sort_index(value_counts(Column(t, "Department")))
    IN  [rendered |-> TRUE,
         title    |-> "Department Distribution (Employee Count)",
         xlabel   |-> "Department",
         ylabel   |-> "Count",
         bars     |-> counts]

---------------------------------------------------------------------------
(* main: the escaping of the source text, and build_html_report *)

\* str.replace(old, new) for a pattern of one character
RECURSIVE Replace(_, _, _)
Replace(text, old, new) ==
    IF text = <<>> THEN <<>>
    ELSE (IF Head(text) = old THEN new ELSE <<Head(text)>>)
         \o Replace(Tail(text), old, new)

\* the ampersand replaced last: the entities of < and > are escaped again
EscapeAmpLast(text) ==
    Replace(Replace(Replace(text, "<", <<"&", "l", "t", ";">>),
                    ">", <<"&", "g", "t", ";">>),
            "&", <<"&", "a", "m", "p", ";">>)

\* code_text.replace("&", "&amp;").replace("<", "&lt;").replace(">", "&gt;")
Escape(text) ==
    Replace(Replace(Replace(text, "&", <<"&", "a", "m", "p", ";">>),
                    "<", <<"&", "l", "t", ";">>),
            ">", <<"&", "g", "t", ";">>)

\* main's local code_text before the source was read
NoText == [read |-> FALSE, text |-> <<>>]

\* the program's own source, abridged to a line that holds the three
\* characters and an entity: <a>&amp;
OwnSource == <<"<", "a", ">", "&", "a", "m", "p", ";">>

\* The document of build_html_report, section by section: the head and the
\* title, the Finance paragraph, the chart (the image as a base64 data URI),
\* the code block, the closing tags.
Section(kind, count, image, text) ==
    [kind |-> kind, count |-> count, image |-> image, text |-> text]

\* a template that ends after the code block, the closing tags left out
HtmlUnclosed(code, img, count) ==
    << Section("head", 0, NoImage, <<>>),
       Section("finance", count, NoImage, <<>>),
       Section("chart", 0, img, <<>>),
       Section("code", 0, NoImage, code) >>

Html(code, img, count) ==
    << Section("head", 0, NoImage, <<>>),
       Section("finance", count, NoImage, <<>>),
       Section("chart", 0, img, <<>>),
       Section("code", 0, NoImage, code),
       Section("end", 0, NoImage, <<>>) >>

---------------------------------------------------------------------------
(* The environment *)

\* what a read, or a rendering, may end in
IOResults == {"ok", "error"}

\* What the write of a file of n parts may end in: all of it written, the
\* open refused (nothing changes), or an error after the open with only the
\* first k parts on the disk, k up to most.
WriteResults(n, most) ==
    {[result |-> "ok", parts |-> n], [result |-> "open_error", parts |-> 0]}
    \cup {[result |-> "write_error", parts |-> k] : k \in 0..Min(most, n - 1)}

\* the dataset files a working directory may hold before the first run
DeptCells == {"Finance", "HR", "IT", "finance"}
RECURSIVE CellSeqs(_)
CellSeqs(n) ==
    IF n = 0 THEN {<<>>}
    ELSE LET shorter == CellSeqs(n - 1)
         IN  shorter \cup {Append(c, x) : c \in {t \in shorter : Len(t) = n - 1},
                                          x \in DeptCells}

TableFile(cells) ==
    File(<< <<"Employee_ID", "Department">> >> \o
         [i \in 1..Len(cells) |-> <<ToString(i), cells[i]>>])

InitialFiles ==
    {NoFile,
     \* an empty file
     File(<<>>),
     \* no Department column
     File(<< <<"Employee_ID", "Region">>, <<"1", "North">> >>),
     \* the column is named in lower case
     File(<< <<"Employee_ID", "department">>, <<"1", "Finance">> >>),
     \* a line with more fields than the header
     File(<< <<"Employee_ID", "Department">>, <<"1", "Finance">>,
             <<"2", "Finance", "x">> >>),
     \* a short line and a missing value
     File(<< <<"Employee_ID", "Department">>, <<"1">>, <<"2", "NA">>,
             <<"3", "Finance">> >>),
     \* the four columns of the synthetic table
     File(<< DataColumns, <<"1", "Finance", "North", "3">>,
             <<"2", "Sales", "West", "5">> >>)}
    \cup {TableFile(c) : c \in CellSeqs(MaxRows)}

\* a report left by an earlier run, over a dataset with no rows
OldReport ==
    File(Html(Escape(OwnSource),
              plot_department_distribution(
                  read_csv(<< <<"Employee_ID", "Department">> >>)),
              0))

---------------------------------------------------------------------------
(* main, one action per statement *)

\* main with the chart rendered before the count is taken and printed
NextStagePlotFirst(stage) ==
    CASE stage = "load"   -> "plot"
      [] stage = "plot"   -> "count"
      [] stage = "count"  -> "source"
      [] stage = "source" -> "report"
      [] stage = "report" -> "done"

\* the statement that follows each statement of main
NextStage(stage) ==
    CASE stage = "load"   -> "count"
      [] stage = "count"  -> "plot"
      [] stage = "plot"   -> "source"
      [] stage = "source" -> "report"
      [] stage = "report" -> "done"

\* the process ends, with an unhandled exception or at the end of main: its
\* memory is gone, what it printed and wrote stays
Exit(d, how) ==
    /\ pc' = [pc EXCEPT ![d] = how]
    /\ df' = [df EXCEPT ![d] = NoTable]
    /\ finance_count' = [finance_count EXCEPT ![d] = 0]
    /\ img_bytes' = [img_bytes EXCEPT ![d] = NoImage]
    /\ code_text' = [code_text EXCEPT ![d] = NoText]

\* python employee_analysis.py: a new process enters main.  The program is
\* invoked once at a time: no other run is under way.
main_start(d) ==
    /\ \A e \in Dirs : pc[e] \in {"idle", "done", "failed"}
    /\ runNo[d] < MaxRuns
    /\ runNo' = [runNo EXCEPT ![d] = @ + 1]
    /\ pc' = [pc EXCEPT ![d] = "load"]
    /\ stdout' = [stdout EXCEPT ![d] = <<>>]
    /\ branch' = [branch EXCEPT ![d] = "none"]
    /\ UNCHANGED <<csv, report, df, finance_count, img_bytes, code_text, source_file>>

\* df = load_or_generate_data(csv_path)
load_or_generate_data(d) ==
    /\ pc[d] = "load"
    /\ IF path_exists(csv[d])
       THEN \E io \in IOResults :
              /\ branch' = [branch EXCEPT ![d] = "load"]
              /\ csv' = csv
              /\ IF io = "error" \/ read_csv_fails(csv[d].content)
                 THEN Exit(d, "failed")
                 ELSE /\ df' = [df EXCEPT ![d] = read_csv(csv[d].content)]
                      /\ pc' = [pc EXCEPT ![d] = NextStage("load")]
                      /\ UNCHANGED <<finance_count, img_bytes, code_text>>
       ELSE LET table == SyntheticTable(d)
                lines == to_csv(table)
            IN  \E w \in WriteResults(Len(lines), MaxTrunc) :
                  /\ branch' = [branch EXCEPT ![d] = "generate"]
                  /\ IF w.result = "ok"
                     THEN /\ csv' = [csv EXCEPT ![d] = File(lines)]
                          /\ df' = [df EXCEPT ![d] = table]
                          /\ pc' = [pc EXCEPT ![d] = NextStage("load")]
                          /\ UNCHANGED <<finance_count, img_bytes, code_text>>
                     ELSE /\ csv' = [csv EXCEPT ![d] =
                                       IF w.result = "open_error" THEN csv[d]
                                       ELSE File(SubSeq(lines, 1, w.parts))]
                          /\ Exit(d, "failed")
    /\ UNCHANGED <<report, runNo, stdout, source_file>>

\* finance_count = int((df["Department"] == "Finance").sum()); print(...)
main_finance_count(d) ==
    /\ pc[d] = "count"
    /\ IF ~HasColumn(df[d], "Department")
       THEN /\ Exit(d, "failed")
            /\ stdout' = stdout
       ELSE /\ finance_count' = [finance_count EXCEPT ![d] = FinanceCount(df[d])]
            /\ stdout' = [stdout EXCEPT ![d] = Append(@, FinanceCount(df[d]))]
            /\ pc' = [pc EXCEPT ![d] = NextStage("count")]
            /\ UNCHANGED <<df, img_bytes, code_text>>
    /\ UNCHANGED <<csv, report, runNo, branch, source_file>>

\* buf = plot_department_distribution(df); img_bytes = buf.getvalue()
main_plot(d) ==
    /\ pc[d] = "plot"
    /\ \E r \in IOResults :
         IF r = "error" \/ ~HasColumn(df[d], "Department")
         THEN Exit(d, "failed")
         ELSE /\ img_bytes' = [img_bytes EXCEPT ![d] = plot_department_distribution(df[d])]
              /\ pc' = [pc EXCEPT ![d] = NextStage("plot")]
              /\ UNCHANGED <<df, finance_count, code_text>>
    /\ UNCHANGED <<csv, report, runNo, branch, stdout, source_file>>

\* code_text = Path(__file__).read_text(...), then the three replace
main_code_text(d) ==
    /\ pc[d] = "source"
    /\ \E io \in IOResults :
         IF io = "error"
         THEN Exit(d, "failed")
         ELSE /\ code_text' = [code_text EXCEPT ![d] =
                                 [read |-> TRUE, text |-> Escape(source_file)]]
              /\ pc' = [pc EXCEPT ![d] = NextStage("source")]
              /\ UNCHANGED <<df, finance_count, img_bytes>>
    /\ UNCHANGED <<csv, report, runNo, branch, stdout, source_file>>

\* build_html_report(code_text, img_bytes, finance_count, out_html), after
\* which main returns: out_html.write_text(html) opens the file for writing
\* (which empties it) and writes the document
build_html_report(d) ==
    /\ pc[d] = "report"
    /\ LET html == Html(code_text[d].text, img_bytes[d], finance_count[d])
       IN  \E w \in WriteResults(Len(html), Len(html)) :
             /\ report' = [report EXCEPT ![d] =
                             IF w.result = "open_error" THEN report[d]
                             ELSE File(SubSeq(html, 1, w.parts))]
             /\ Exit(d, IF w.result = "ok" THEN NextStage("report") ELSE "failed")
    /\ UNCHANGED <<csv, runNo, branch, stdout, source_file>>

Run(d) ==
    \/ main_start(d)
    \/ load_or_generate_data(d)
    \/ main_finance_count(d)
    \/ main_plot(d)
    \/ main_code_text(d)
    \/ build_html_report(d)

---------------------------------------------------------------------------
(* The specifications *)

InitProcess ==
    /\ pc = [d \in Dirs |-> "idle"]
    /\ runNo = [d \in Dirs |-> 0]
    /\ branch = [d \in Dirs |-> "none"]
    /\ df = [d \in Dirs |-> NoTable]
    /\ finance_count = [d \in Dirs |-> 0]
    /\ stdout = [d \in Dirs |-> <<>>]
    /\ img_bytes = [d \in Dirs |-> NoImage]
    /\ code_text = [d \in Dirs |-> NoText]

\* Runs, one after the other, in working directory 1, which may hold any
\* dataset file and an old report.
Init ==
    /\ InitProcess
    /\ source_file = OwnSource
    /\ \E f \in InitialFiles : csv = [d \in Dirs |-> IF d = 1 THEN f ELSE NoFile]
    /\ \E r \in {NoFile, OldReport} :
         report = [d \in Dirs |-> IF d = 1 THEN r ELSE NoFile]

Next == \E d \in {1} : Run(d)

Spec == Init /\ [][Next]_vars

\* Runs in two working directories that hold no dataset file, the first
\* without a report and the second with an old one; the runs of one directory
\* know nothing of the other.
InitIndependent ==
    /\ InitProcess
    /\ source_file = OwnSource
    /\ csv = [d \in Dirs |-> NoFile]
    /\ report = [d \in Dirs |-> IF d = 1 THEN NoFile ELSE OldReport]

NextIndependent == \E d \in Dirs : Run(d)

SpecIndependent == InitIndependent /\ [][NextIndependent]_vars

\* The escaping alone, applied to every text of up to MaxTextLen characters.
TextChars == {"&", "<", ">", ";", "a", "m", "p", "l", "t", "g"}
RECURSIVE Texts(_)
Texts(n) ==
    IF n = 0 THEN {<<>>}
    ELSE LET shorter == Texts(n - 1)
         IN  shorter \cup {Append(t, c) : t \in {u \in shorter : Len(u) = n - 1},
                                          c \in TextChars}

InitEscape ==
    /\ InitProcess
    /\ source_file \in Texts(MaxTextLen)
    /\ csv = [d \in Dirs |-> NoFile]
    /\ report = [d \in Dirs |-> NoFile]

EscapeText ==
    /\ ~code_text[1].read
    /\ code_text' = [code_text EXCEPT ![1] = [read |-> TRUE, text |-> Escape(source_file)]]
    /\ UNCHANGED <<csv, report, pc, runNo, branch, df, finance_count, stdout,
                   img_bytes, source_file>>

SpecEscape == InitEscape /\ [][EscapeText]_vars

---------------------------------------------------------------------------
(* What the claims are stated with *)

\* the stages of a run in which load_or_generate_data has returned
AfterLoad == {"count", "plot", "source", "report", "done"}

\* the header of a dataset file (none for an empty file)
Header(f) == IF f.content = <<>> THEN <<>> ELSE f.content[1]

\* the lines of a dataset file, after the header, whose Department field is
\* exactly Finance, counted on the file itself
PersistedFinanceRows(f) ==
    LET j == IndexOf(Header(f), "Department")
    IN  Cardinality({i \in 2..Len(f.content) :
                        Len(f.content[i]) >= j /\ f.content[i][j] = "Finance"})

\* the dataset file holds the whole generated table
SeededFile == File(to_csv(SeededTable))
SeededFinanceCount == FinanceCount(SeededTable)

\* a complete report: the five sections in order
KindsOf(doc) == [i \in 1..Len(doc) |-> doc[i].kind]
CompleteDocument(doc) ==
    KindsOf(doc) = <<"head", "finance", "chart", "code", "end">>

\* one pass over an escaped text that decodes the three entities
StartsWith(text, pre) == Len(pre) <= Len(text) /\ SubSeq(text, 1, Len(pre)) = pre
Drop(text, n) == SubSeq(text, n + 1, Len(text))
RECURSIVE Unescape(_)
Unescape(e) ==
    IF e = <<>> THEN <<>>
    ELSE IF StartsWith(e, <<"&", "a", "m", "p", ";">>)
         THEN <<"&">> \o Unescape(Drop(e, 5))
    ELSE IF StartsWith(e, <<"&", "l", "t", ";">>)
         THEN <<"<">> \o Unescape(Drop(e, 4))
    ELSE IF StartsWith(e, <<"&", "g", "t", ";">>)
         THEN <<">">> \o Unescape(Drop(e, 4))
    ELSE <<Head(e)>> \o Unescape(Tail(e))

\* position i of e starts one of the three entities
EntityAt(e, i) ==
    LET rest == SubSeq(e, i, Len(e))
    IN  \/ StartsWith(rest, <<"&", "a", "m", "p", ";">>)
        \/ StartsWith(rest, <<"&", "l", "t", ";">>)
        \/ StartsWith(rest, <<"&", "g", "t", ";">>)

---------------------------------------------------------------------------
(* The claims *)

\* C1: a step of a run never changes a dataset file that exists, whatever it
\* holds and however the run ends; the file changes only in
\* load_or_generate_data of a run that found no file, and exists from then
\* on: it is written at most once.
C1_DatasetWrittenOnlyWhenAbsent ==
    [][\A d \in Dirs :
          /\ csv[d].exists => csv'[d] = csv[d]
          /\ csv'[d] # csv[d] =>
                /\ ~csv[d].exists /\ csv'[d].exists
                /\ pc[d] = "load" /\ branch'[d] = "generate"]_vars

\* a second run has failed on a file with another schema, which is as it was
C1_Witness ==
    /\ runNo[1] = 2
    /\ pc[1] = "failed"
    /\ csv[1] = File(<< <<"Employee_ID", "department">>, <<"1", "Finance">> >>)

\* C2: the integer a run prints is the number of lines of the dataset file,
\* as it is on the disk, whose Department field is exactly Finance, on the
\* load path and on the generate path; a run that ends successfully has
\* printed it and its report holds the same integer.
C2_PrintedCountIsPersistedCount ==
    \A d \in Dirs :
        /\ stdout[d] # <<>> => stdout[d] = <<PersistedFinanceRows(csv[d])>>
        /\ pc[d] = "done" =>
              /\ stdout[d] # <<>>
              /\ report[d].exists
              /\ CompleteDocument(report[d].content)
              /\ report[d].content[2].count = stdout[d][1]

\* a successful run over a file that also holds "finance" in lower case
C2_Witness ==
    /\ pc[1] = "done"
    /\ branch[1] = "load"
    /\ Column(read_csv(csv[1].content), "Department") = <<"Finance", "finance", "Finance">>
    /\ stdout[1] = <<2>>

\* C3: while the dataset file exists and has no Department column, no run
\* prints a Finance line, none gets past the count, and the report file does
\* not change.
MissingDepartment(d) ==
    csv[d].exists /\ IndexOf(Header(csv[d]), "Department") = 0

C3_MissingDepartmentIsFatal ==
    /\ [](\A d \in Dirs : MissingDepartment(d) =>
             /\ stdout[d] = <<>>
             /\ pc[d] \in {"idle", "load", "count", "failed"})
    /\ [][\A d \in Dirs : MissingDepartment(d) => report'[d] = report[d]]_vars

\* a run has failed on a file with no Department column, the old report kept
C3_Witness ==
    /\ csv[1] = File(<< <<"Employee_ID", "Region">>, <<"1", "North">> >>)
    /\ pc[1] = "failed"
    /\ runNo[1] = 1
    /\ report[1] = OldReport

\* C4, as claimed: the report file is never a partly written document.
C4_NoPartialReport ==
    \A d \in Dirs : report[d].exists => CompleteDocument(report[d].content)

\* C4, amended: the report file changes only in the report write; a run that
\* ends successfully leaves the complete document of this run (its escaped
\* source, its chart, the count it printed); a run that fails in the write
\* itself leaves a proper prefix of that document; a run that fails earlier
\* leaves the report as it was.
C4_ReportWholeUnlessWriteFails ==
    /\ [](\A d \in Dirs : pc[d] = "done" =>
             /\ report[d].exists
             /\ CompleteDocument(report[d].content)
             /\ report[d].content[2].count = PersistedFinanceRows(csv[d])
             /\ report[d].content[3].image =
                   plot_department_distribution(read_csv(csv[d].content))
             /\ report[d].content[4].text = Escape(source_file))
    /\ [][\A d \in Dirs : report'[d] # report[d] =>
             /\ pc[d] = "report"
             /\ report'[d].exists
             /\ \/ pc'[d] = "done" /\ CompleteDocument(report'[d].content)
                \/ /\ pc'[d] = "failed"
                   /\ Len(report'[d].content) < 5
                   /\ IsPrefix(report'[d].content,
                               Html(code_text[d].text, img_bytes[d], finance_count[d]))]_vars

\* a second run has replaced the old report by its complete document
C4_Witness ==
    /\ pc[1] = "done"
    /\ runNo[1] = 2
    /\ report[1].exists
    /\ report[1] # OldReport
    /\ CompleteDocument(report[1].content)

\* C5: two runs that found no dataset file, in two working directories, and
\* wrote it, wrote the same file, whatever the run's number and whatever
\* report each directory held.
Persisted(d) == branch[d] = "generate" /\ pc[d] \in AfterLoad

C6_HundredSequentialIds ==
    \A d \in Dirs : Persisted(d) =>
        /\ df[d].loaded =>
              /\ Len(df[d].rows) = 100
              /\ \A i \in 1..100 : df[d].rows[i][1] = i
        /\ pc[d] = "count" => df[d].loaded
        /\ Len(csv[d].content) = 101
        /\ csv[d].content[1] = <<"Employee_ID", "Department", "Region", "Performance_Score">>
        /\ \A i \in 1..100 : csv[d].content[i + 1][1] = ToString(i)

C6_Witness ==
    /\ Persisted(1)
    /\ pc[1] = "count"
    /\ Len(df[1].rows) = 100
    /\ df[1].rows[100][1] = 100
    /\ csv[1].content[101][1] = "100"

\* C7: the escaped text holds no < and no >, each & in it starts one of
\* &amp; &lt; &gt;, and decoding the three entities once gives the source
\* text back.
C7_EscapedTextIsClean ==
    code_text[1].read =>
        LET e == code_text[1].text
        IN  /\ \A i \in 1..Len(e) : e[i] # "<" /\ e[i] # ">"
            /\ \A i \in 1..Len(e) : e[i] = "&" => EntityAt(e, i)
            /\ Unescape(e) = source_file

\* a source text that is itself an entity, escaped
C7_Witness ==
    /\ code_text[1].read
    /\ source_file = <<"&", "l", "t", ";">>
    /\ code_text[1].text = <<"&", "a", "m", "p", ";", "l", "t", ";">>

\* C8: the chart has one bar per department value of the table (a missing
\* value is no department), the labels strictly ascending from left to right
\* in the order of str, each bar as high as the number of records of its
\* department; the rows IT, Finance, HR give the bars Finance, HR, IT.
C8_BarsSortedByLabel ==
    \A d \in Dirs : (img_bytes[d].rendered /\ df[d].loaded) =>
        LET bars == img_bytes[d].bars
            col  == Column(df[d], "Department")
        IN  /\ {bars[i].label : i \in 1..Len(bars)} = Range(col) \ {NaN}
            /\ \A i, j \in 1..Len(bars) :
                  i < j => StrLess(bars[i].label, bars[j].label)
            /\ \A i \in 1..Len(bars) :
                  bars[i].height = Cardinality({k \in 1..Len(col) : col[k] = bars[i].label})
            /\ col = <<"IT", "Finance", "HR">> =>
                  [i \in 1..Len(bars) |-> bars[i].label] = <<"Finance", "HR", "IT">>

C8_Witness ==
    /\ img_bytes[1].rendered
    /\ Column(df[1], "Department") = <<"IT", "Finance", "HR">>
    /\ [i \in 1..3 |-> img_bytes[1].bars[i].label] = <<"Finance", "HR", "IT">>

\* C9: a run goes through load, count and print, plot, source, report in
\* this order: at each statement exactly the earlier ones have produced
\* their result; the dataset file changes only in the load, the line is
\* printed only in the count, the report changes only in the report write
\* (so after the line was printed and the chart and the source were there);
\* after a failure nothing is printed or written until a new run starts.
C9_StepsInOrder ==
    /\ [](\A d \in Dirs :
             LET loaded   == df[d].loaded
                 printed  == stdout[d] # <<>>
                 rendered == img_bytes[d].rendered
                 read     == code_text[d].read
             IN  /\ pc[d] = "load"   => ~loaded /\ ~printed /\ ~rendered /\ ~read
                 /\ pc[d] = "count"  => loaded /\ ~printed /\ ~rendered /\ ~read
                 /\ pc[d] = "plot"   => loaded /\ printed /\ ~rendered /\ ~read
                 /\ pc[d] = "source" => loaded /\ printed /\ rendered /\ ~read
                 /\ pc[d] = "report" => loaded /\ printed /\ rendered /\ read
                 /\ pc[d] = "done"   => printed /\ report[d].exists)
    /\ [][\A d \in Dirs :
             /\ csv'[d] # csv[d] => pc[d] = "load"
             /\ (stdout'[d] # stdout[d] /\ stdout'[d] # <<>>) => pc[d] = "count"
             /\ report'[d] # report[d] =>
                   pc[d] = "report" /\ stdout[d] # <<>> /\ code_text[d].read
             /\ pc[d] = "failed" =>
                   /\ csv'[d] = csv[d] /\ report'[d] = report[d]
                   /\ \/ pc'[d] = "failed" /\ stdout'[d] = stdout[d]
                      \/ pc'[d] = "load" /\ runNo'[d] = runNo[d] + 1]_vars

\* a run that failed after it printed its line, and wrote no report
C9_Witness ==
    /\ pc[1] = "failed"
    /\ runNo[1] = 1
    /\ stdout[1] # <<>>
    /\ ~report[1].exists

\* C10, as claimed: from a directory with no dataset file, every run that
\* prints, the first or a later one, prints the Finance count of the table
\* the first run generated.
C10_EveryRunPrintsGeneratedCount ==
    \A d \in Dirs : stdout[d] # <<>> => stdout[d] = <<SeededFinanceCount>>

\* C10, amended: once the dataset file holds the whole generated table (the
\* write of a run completed), every run takes the load path and leaves the
\* file alone, and every run that prints, the writing run or a later one,
\* however earlier runs ended, prints the Finance count of the generated
\* table.
C10_AfterCompleteWriteRunsAgree ==
    /\ [](\A d \in Dirs : csv[d] = SeededFile =>
             (stdout[d] # <<>> => stdout[d] = <<SeededFinanceCount>>))
    /\ [](\A d \in Dirs : Persisted(d) => csv[d] = SeededFile)
    /\ [][\A d \in Dirs : (csv[d] = SeededFile /\ pc[d] = "load") =>
             (branch'[d] = "load" /\ csv'[d] = SeededFile)]_vars

\* a second run, after a first that wrote the dataset and then failed, has
\* loaded the file and printed the count of the generated table
C10_Witness ==
    /\ runNo[1] = 2
    /\ branch[1] = "load"
    /\ csv[1] = SeededFile
    /\ stdout[1] = <<SeededFinanceCount>>
    /\ ~report[1].exists

=============================================================================
